---------------------------- MODULE Spec2Model ----------------------------
(***************************************************************************)
(* Model of the trade ledger (src/src/performance_analytics.py) and of the *)
(* market-data streamer (src/src/market_data_streamer.py).                 *)
(*                                                                         *)
(* Python's Optional values are sequences of length 0 or 1: None is <<>>   *)
(* and a present value x is <<x>>.  Prices and P&L are integers.           *)
(***************************************************************************)
EXTENDS Integers, Sequences, FiniteSets, TLC

VARIABLES
    trades,      \* PerformanceAnalytics.trades: the list of Trade records
    daily_pnl,   \* PerformanceAnalytics.daily_pnl: date key -> summed P&L
    today,       \* the ledger's clock (datetime.now()), in days
    lastCall,    \* the last ledger call: operation, identifier, outcome
    okClosed,    \* identifiers whose latest close() call returned True
    running,       \* MarketDataStreamer.running
    thread,        \* MarketDataStreamer.thread: None or the last worker made
    wpc,           \* where each worker thread is in _streaming_loop
    markets_data,  \* MarketDataStreamer.markets_data: id -> MarketData
    last_update,   \* MarketDataStreamer.last_update
    subscribers,   \* MarketDataStreamer.subscribers: the callback list
    ticks,         \* _update_market_data calls that have run (the clock)
    lastTick,      \* the last _update_market_data call: worker, outcome
    notifications, \* _notify_subscribers calls that have run
    lastNotified,  \* the last notification: its argument and its invocations
    observed,      \* per market, every price a tick has applied to it
    ctl,           \* where the caller of start/stop_streaming is
    stopped,       \* stop_streaming() has returned and no start followed
    returned       \* the table the last get_all_markets_data() call returned

ledgerVars == <<trades, daily_pnl, today, lastCall, okClosed>>

streamVars == <<running, thread, wpc, markets_data, last_update, subscribers,
                ticks, lastTick, notifications, lastNotified, observed, ctl,
                stopped, returned>>

vars == <<trades, daily_pnl, today, lastCall, okClosed,
          running, thread, wpc, markets_data, last_update, subscribers,
          ticks, lastTick, notifications, lastNotified, observed, ctl,
          stopped, returned>>

-----------------------------------------------------------------------------
(* Bounds and input domains of the ledger specifications.                  *)

MaxTrades == 2

Days == {0, 1}
TradeIds == {"T1", "T2"}
MarketIds == {"m1"}
Strategies == {"s1"}
LedgerSides == {"buy"}
Quantities == {0, 2}
EntryPrices == {5}
ExitPrices == {3, 8}
Reasons == {"manual"}

None == <<>>
Some(x) == <<x>>
IsNone(o) == o = <<>>
Val(o) == o[1]

-----------------------------------------------------------------------------
(* Trade                                                                   *)

\* Trade(...) as its caller constructs it: every exit field defaults to None
\* and __post_init__ stamps entry_time.
NewTrade(tid, mkt, strat, side, qty, price, now) ==
    [trade_id |-> tid, market_id |-> mkt, strategy |-> strat, side |-> side,
     quantity |-> qty, entry_price |-> price, entry_time |-> now,
     exit_price |-> None, exit_time |-> None, pnl |-> None, pnl_pct |-> None,
     holding_period |-> None, exit_reason |-> None]

is_closed(t) == ~IsNone(t.exit_price)

\* str.lower() on the side strings the callers pass.
Lower(s) == IF s \in {"buy", "BUY", "Buy"} THEN "buy"
            ELSE IF s \in {"sell", "SELL", "Sell"} THEN "sell"
            ELSE s

\* Mutant of ClosePnl: every side is given the buy formula.
ClosePnl_IgnoringSide(t, exit_price) ==
    (exit_price - t.entry_price) * t.quantity

\* pnl of Trade.close_trade: buy gains when the price rises, any other side
\* when it falls.
ClosePnl(t, exit_price) ==
    IF Lower(t.side) = "buy"
    THEN (exit_price - t.entry_price) * t.quantity
    ELSE (t.entry_price - exit_price) * t.quantity

EntryValue(t) == t.entry_price * t.quantity

\* pnl_pct of Trade.close_trade: (pnl / entry_value) * 100 as the fraction
\* num/den, left None when the entry notional is zero.
ClosePnlPct(t, exit_price) ==
    IF EntryValue(t) # 0
    THEN Some([num |-> ClosePnl(t, exit_price) * 100, den |-> EntryValue(t)])
    ELSE None

\* Mutant of TradeClose: the holding period is not computed.
TradeClose_WithoutHoldingPeriod(t, exit_price, reason, now) ==
    [t EXCEPT !.exit_price = Some(exit_price),
              !.exit_time = Some(now),
              !.exit_reason = Some(reason),
              !.pnl = Some(ClosePnl(t, exit_price)),
              !.pnl_pct = ClosePnlPct(t, exit_price)]

\* Trade.close_trade: the trade after it is closed at exit_price at time now.
TradeClose(t, exit_price, reason, now) ==
    [t EXCEPT !.exit_price = Some(exit_price),
              !.exit_time = Some(now),
              !.exit_reason = Some(reason),
              !.pnl = Some(ClosePnl(t, exit_price)),
              !.pnl_pct = ClosePnlPct(t, exit_price),
              !.holding_period = Some((now - t.entry_time) * 24)]

-----------------------------------------------------------------------------
(* PerformanceAnalytics: record and close                                  *)

\* Mutant of Matches: the scan forgets the "not trade.is_closed" test.
Matches_IgnoringClosed(t, tid) == t.trade_id = tid

\* The condition of the scan in close_trade.
Matches(t, tid) == t.trade_id = tid /\ ~is_closed(t)

\* Mutant of FirstMatch: the first trade with the identifier, open or not.
FirstMatch_AnyState(ts, tid) ==
    IF \E i \in 1..Len(ts) : ts[i].trade_id = tid
    THEN CHOOSE i \in 1..Len(ts) :
            /\ ts[i].trade_id = tid
            /\ \A j \in 1..(i - 1) : ts[j].trade_id # tid
    ELSE 0

\* Index of the first trade the scan of close_trade stops at, 0 if none.
FirstMatch(ts, tid) ==
    IF \E i \in 1..Len(ts) : Matches(ts[i], tid)
    THEN CHOOSE i \in 1..Len(ts) :
            /\ Matches(ts[i], tid)
            /\ \A j \in 1..(i - 1) : ~Matches(ts[j], tid)
    ELSE 0

\* Mutant of BucketAdd: = for +=, the bucket is overwritten.
BucketAdd_Overwriting(buckets, key, amount) ==
    [k \in (DOMAIN buckets) \cup {key} |->
        IF k = key THEN amount ELSE buckets[k]]

\* self.daily_pnl[date_key] += pnl on a defaultdict(float).
BucketAdd(buckets, key, amount) ==
    IF key \in DOMAIN buckets
    THEN [buckets EXCEPT ![key] = @ + amount]
    ELSE [k \in (DOMAIN buckets) \cup {key} |->
            IF k = key THEN amount ELSE buckets[k]]

\* The f-string of the logger.info call that ends a successful close:
\* formatting pnl_pct with :.2f raises TypeError when it is None.
CloseLogRaises(t) == IsNone(t.pnl_pct)

Toggle(b) == 1 - b

RecordTrade(tid, mkt, strat, side, qty, price) ==
    /\ trades' = Append(trades, NewTrade(tid, mkt, strat, side, qty, price, today))
    /\ lastCall' = [op |-> "record", id |-> tid, ret |-> "None",
                    seq |-> Toggle(lastCall.seq)]
    /\ UNCHANGED <<daily_pnl, today, okClosed>>
    /\ UNCHANGED streamVars

\* Mutant of CloseTrade: a close that finds no open trade still reads the
\* day's bucket of the defaultdict, which inserts it.
CloseTrade_TouchingBucketOnMiss(tid, exit_price, reason) ==
    LET i == FirstMatch(trades, tid) IN
    /\ UNCHANGED streamVars
    /\ IF i = 0
       THEN /\ lastCall' = [op |-> "close", id |-> tid, ret |-> "False",
                            seq |-> Toggle(lastCall.seq)]
            /\ okClosed' = okClosed \ {tid}
            /\ daily_pnl' = BucketAdd(daily_pnl, today, 0)
            /\ UNCHANGED <<trades, today>>
       ELSE LET closed == TradeClose(trades[i], exit_price, reason, today)
                ret == IF CloseLogRaises(closed) THEN "raised" ELSE "True"
            IN /\ trades' = [trades EXCEPT ![i] = closed]
               /\ daily_pnl' = BucketAdd(daily_pnl, today, Val(closed.pnl))
               /\ lastCall' = [op |-> "close", id |-> tid, ret |-> ret,
                               seq |-> Toggle(lastCall.seq)]
               /\ okClosed' = IF ret = "True" THEN okClosed \cup {tid}
                              ELSE okClosed \ {tid}
               /\ UNCHANGED today

CloseTrade(tid, exit_price, reason) ==
    LET i == FirstMatch(trades, tid) IN
    /\ UNCHANGED streamVars
    /\ IF i = 0
       THEN /\ lastCall' = [op |-> "close", id |-> tid, ret |-> "False",
                            seq |-> Toggle(lastCall.seq)]
            /\ okClosed' = okClosed \ {tid}
            /\ UNCHANGED <<trades, daily_pnl, today>>
       ELSE LET closed == TradeClose(trades[i], exit_price, reason, today)
                ret == IF CloseLogRaises(closed) THEN "raised" ELSE "True"
            IN /\ trades' = [trades EXCEPT ![i] = closed]
               /\ daily_pnl' = BucketAdd(daily_pnl, today, Val(closed.pnl))
               /\ lastCall' = [op |-> "close", id |-> tid, ret |-> ret,
                               seq |-> Toggle(lastCall.seq)]
               /\ okClosed' = IF ret = "True" THEN okClosed \cup {tid}
                              ELSE okClosed \ {tid}
               /\ UNCHANGED today

\* Time passes between two calls.
AdvanceClock ==
    /\ today + 1 \in Days
    /\ today' = today + 1
    /\ UNCHANGED <<trades, daily_pnl, lastCall, okClosed>>
    /\ UNCHANGED streamVars

InitLedger ==
    /\ trades = <<>>
    /\ daily_pnl = <<>>
    /\ today = 0
    /\ lastCall = [op |-> "init", id |-> "", ret |-> "None", seq |-> 0]
    /\ okClosed = {}

-----------------------------------------------------------------------------
(* PerformanceAnalytics: statistics                                        *)

\* A query that raised instead of returning.
Raised == [kind |-> "raised"]

RECURSIVE SumSeq(_)
SumSeq(s) == IF s = <<>> THEN 0 ELSE s[1] + SumSeq(Tail(s))

RECURSIVE CumSum(_, _)
\* np.cumsum: the running sums of s, started from acc.
CumSum(s, acc) ==
    IF s = <<>> THEN <<>> ELSE <<acc + s[1]>> \o CumSum(Tail(s), acc + s[1])

Max2(a, b) == IF a >= b THEN a ELSE b
Min2(a, b) == IF a <= b THEN a ELSE b

\* Mutant of RunningMax: the series itself, no maximum is accumulated.
RunningMax_NotAccumulating(s) == s

RECURSIVE RunningMax(_)
\* np.maximum.accumulate over a non-empty series.
RunningMax(s) ==
    IF Len(s) <= 1 THEN s
    ELSE LET r == RunningMax(SubSeq(s, 1, Len(s) - 1))
         IN Append(r, Max2(r[Len(r)], s[Len(s)]))

SeqMax(s) == CHOOSE x \in {s[i] : i \in 1..Len(s)} :
                \A j \in 1..Len(s) : s[j] <= x
SeqMin(s) == CHOOSE x \in {s[i] : i \in 1..Len(s)} :
                \A j \in 1..Len(s) : s[j] >= x

\* [t for t in self.trades if t.is_closed]: the closed trades in list order.
ClosedTrades(ts) == SelectSeq(ts, is_closed)

PnlSeries(cs) == [i \in 1..Len(cs) |-> Val(cs[i].pnl)]

\* max_drawdown of get_trade_statistics over a non-empty P&L series.
MaxDrawdown(pnls) ==
    LET cumulative_pnl == CumSum(pnls, 0)
        running_max == RunningMax(cumulative_pnl)
        drawdown == [i \in 1..Len(pnls) |-> running_max[i] - cumulative_pnl[i]]
    IN IF Len(drawdown) > 0 THEN SeqMax(drawdown) ELSE 0

\* sum(t.pnl_pct for t in closed_trades) adds None to a number, a TypeError,
\* as soon as one closed trade has no pnl_pct.
TotalReturnRaises(cs) == \E i \in 1..Len(cs) : IsNone(cs[i].pnl_pct)

\* Mutant of ProfitFactor: zero, not infinity, when nothing was lost.
ProfitFactor_ZeroWithoutLosses(total_wins, total_losses) ==
    IF total_losses > 0
    THEN [kind |-> "ratio", num |-> total_wins, den |-> total_losses]
    ELSE [kind |-> "ratio", num |-> 0, den |-> 1]

\* total_wins / total_losses if total_losses > 0 else float('inf'), the
\* quotient kept as the fraction num/den.
ProfitFactor(total_wins, total_losses) ==
    IF total_losses > 0
    THEN [kind |-> "ratio", num |-> total_wins, den |-> total_losses]
    ELSE [kind |-> "inf"]

\* abs(x)
Abs(x) == IF x < 0 THEN -x ELSE x

\* The result of get_trade_statistics.
TradeStatistics(ts, buckets) ==
    LET closed_trades == ClosedTrades(ts)
        pnls == PnlSeries(closed_trades)
        winning == SelectSeq(pnls, LAMBDA p : p > 0)
        losing == SelectSeq(pnls, LAMBDA p : p <= 0)
    IN IF ts = <<>> THEN [kind |-> "result", total_trades |-> 0]
       ELSE IF closed_trades = <<>>
       THEN [kind |-> "result", total_trades |-> Len(ts),
             open_trades |-> Len(ts), closed_trades |-> 0]
       ELSE IF TotalReturnRaises(closed_trades) THEN Raised
       ELSE [kind |-> "result",
             total_trades |-> Len(ts),
             open_trades |-> Len(ts) - Len(closed_trades),
             closed_trades |-> Len(closed_trades),
             winning_trades |-> Len(winning),
             losing_trades |-> Len(losing),
             total_pnl |-> SumSeq(pnls),
             total_wins |-> SumSeq(winning),
             total_losses |-> IF SumSeq(losing) < 0 THEN -SumSeq(losing)
                              ELSE SumSeq(losing),
             profit_factor |-> ProfitFactor(SumSeq(winning),
                                            Abs(SumSeq(losing))),
             max_drawdown |-> MaxDrawdown(pnls),
             best_trade |-> SeqMax(pnls),
             worst_trade |-> SeqMin(pnls)]

\* The result of get_strategy_performance: one entry per strategy that has a
\* closed trade; best_trade and worst_trade start from the default 0.0.
StrategyPerformance(ts) ==
    LET closed_trades == ClosedTrades(ts)
        keys == {closed_trades[i].strategy : i \in 1..Len(closed_trades)}
        of(k) == PnlSeries(SelectSeq(closed_trades, LAMBDA t : t.strategy = k))
    IN [kind |-> "result",
        stats |-> [k \in keys |->
            [total_trades |-> Len(of(k)),
             winning_trades |-> Len(SelectSeq(of(k), LAMBDA p : p > 0)),
             total_pnl |-> SumSeq(of(k)),
             best_trade |-> Max2(0, SeqMax(of(k))),
             worst_trade |-> Min2(0, SeqMin(of(k)))]]]

\* The result of get_market_performance.
MarketPerformance(ts) ==
    LET closed_trades == ClosedTrades(ts)
        keys == {closed_trades[i].market_id : i \in 1..Len(closed_trades)}
        of(k) == PnlSeries(SelectSeq(closed_trades, LAMBDA t : t.market_id = k))
    IN [kind |-> "result",
        stats |-> [k \in keys |->
            [total_trades |-> Len(of(k)),
             winning_trades |-> Len(SelectSeq(of(k), LAMBDA p : p > 0)),
             total_pnl |-> SumSeq(of(k))]]]

\* The result of get_time_based_performance('daily'): closed trades grouped
\* by the day of their exit time.
TimeBasedPerformance(ts) ==
    LET closed_trades == ClosedTrades(ts)
        keys == {Val(closed_trades[i].exit_time) : i \in 1..Len(closed_trades)}
        of(k) == PnlSeries(SelectSeq(closed_trades,
                                     LAMBDA t : Val(t.exit_time) = k))
    IN [kind |-> "result",
        stats |-> [k \in keys |->
            [total_pnl |-> SumSeq(of(k)),
             trade_count |-> Len(of(k)),
             winning_trades |-> Len(SelectSeq(of(k), LAMBDA p : p > 0))]]]

\* if t.pnl_pct: the percent return is present and not zero.
PctTruthy(t) == ~IsNone(t.pnl_pct) /\ Val(t.pnl_pct).num # 0

\* The result of get_risk_adjusted_metrics: an error marker, or the ratios
\* (which need get_trade_statistics and raise when it does).
RiskAdjustedMetrics(ts, buckets) ==
    LET closed_trades == ClosedTrades(ts)
        returns == SelectSeq(closed_trades, PctTruthy)
        stats == TradeStatistics(ts, buckets)
    IN IF Len(closed_trades) < 2
       THEN [kind |-> "result", error |-> "Need at least 2 closed trades"]
       ELSE IF Len(returns) < 2
       THEN [kind |-> "result", error |-> "Insufficient return data"]
       ELSE IF stats = Raised THEN Raised
       ELSE [kind |-> "result", ratios |-> TRUE,
             n_returns |-> Len(returns),
             max_drawdown |-> stats.max_drawdown]

\* The result of generate_performance_report: it raises when one of the
\* queries it composes does.
PerformanceReport(ts, buckets) ==
    LET parts == [overall_statistics |-> TradeStatistics(ts, buckets),
                  strategy_breakdown |-> StrategyPerformance(ts),
                  market_breakdown |-> MarketPerformance(ts),
                  daily_performance |-> TimeBasedPerformance(ts),
                  risk_adjusted_metrics |-> RiskAdjustedMetrics(ts, buckets)]
    IN IF \E f \in DOMAIN parts : parts[f] = Raised THEN Raised
       ELSE [kind |-> "result", parts |-> parts,
             total_tracked_trades |-> Len(ts)]

QueryOps == {"get_trade_statistics", "get_strategy_performance",
             "get_market_performance", "get_time_based_performance",
             "get_risk_adjusted_metrics", "generate_performance_report"}

\* What the ledger call records of a query: its name and whether it returned.
QueryCall(op, result) ==
    [op |-> op, id |-> "", ret |-> result.kind,
     seq |-> Toggle(lastCall.seq)]

\* Mutant of get_trade_statistics: reading today's bucket of the defaultdict
\* by subscript, which inserts it.
get_trade_statistics_InsertingBucket ==
    /\ lastCall' = QueryCall("get_trade_statistics",
                             TradeStatistics(trades, daily_pnl))
    /\ daily_pnl' = BucketAdd(daily_pnl, today, 0)
    /\ UNCHANGED <<trades, today, okClosed>>
    /\ UNCHANGED streamVars

get_trade_statistics ==
    /\ lastCall' = QueryCall("get_trade_statistics",
                             TradeStatistics(trades, daily_pnl))
    /\ UNCHANGED <<trades, daily_pnl, today, okClosed>>
    /\ UNCHANGED streamVars

get_strategy_performance ==
    /\ lastCall' = QueryCall("get_strategy_performance",
                             StrategyPerformance(trades))
    /\ UNCHANGED <<trades, daily_pnl, today, okClosed>>
    /\ UNCHANGED streamVars

get_market_performance ==
    /\ lastCall' = QueryCall("get_market_performance",
                             MarketPerformance(trades))
    /\ UNCHANGED <<trades, daily_pnl, today, okClosed>>
    /\ UNCHANGED streamVars

get_time_based_performance ==
    /\ lastCall' = QueryCall("get_time_based_performance",
                             TimeBasedPerformance(trades))
    /\ UNCHANGED <<trades, daily_pnl, today, okClosed>>
    /\ UNCHANGED streamVars

get_risk_adjusted_metrics ==
    /\ lastCall' = QueryCall("get_risk_adjusted_metrics",
                             RiskAdjustedMetrics(trades, daily_pnl))
    /\ UNCHANGED <<trades, daily_pnl, today, okClosed>>
    /\ UNCHANGED streamVars

generate_performance_report ==
    /\ lastCall' = QueryCall("generate_performance_report",
                             PerformanceReport(trades, daily_pnl))
    /\ UNCHANGED <<trades, daily_pnl, today, okClosed>>
    /\ UNCHANGED streamVars


-----------------------------------------------------------------------------
(* MarketDataStreamer: one tick (_update_market_data)                      *)

HistoryCap == 100
VolMinLen == 10
VolWindow == 20
FeedCap == 20

\* market_data_streamer.py imports logging, time, threading, typing,
\* dataclasses, datetime and requests: the name np it uses is not bound.
np_imported == FALSE

\* s[-n:]
LastN(s, n) == IF Len(s) <= n THEN s ELSE SubSeq(s, Len(s) - n + 1, Len(s))

\* Mutant of FirstN: the whole list, no slice.
FirstN_TakingAll(s, n) == s

\* s[:n]
FirstN(s, n) == IF Len(s) <= n THEN s ELSE SubSeq(s, 1, n)

\* Mutant of HistoryAppend: pop() for pop(0), the newest entry is dropped.
HistoryAppend_DroppingNewest(h, p) ==
    LET a == Append(h, p)
    IN IF Len(a) > HistoryCap THEN SubSeq(a, 1, Len(a) - 1) ELSE a

\* price_history.append(p), then pop(0) once the length exceeds the cap.
HistoryAppend(h, p) ==
    LET a == Append(h, p) IN IF Len(a) > HistoryCap THEN Tail(a) ELSE a

\* MarketData(...) for a market seen for the first time.
NewMarketData(p, now) ==
    [current_price |-> p, previous_price |-> None, price_history |-> <<p>>,
     volatility |-> None, last_updated |-> now]

\* Mutant of UpdatedMarketData: the old current price is not kept.
UpdatedMarketData_NotShifting(m, p, now) ==
    [m EXCEPT !.current_price = p,
              !.last_updated = now,
              !.price_history = HistoryAppend(m.price_history, p)]

\* The in-place update of a market already in the table.
UpdatedMarketData(m, p, now) ==
    [m EXCEPT !.previous_price = Some(m.current_price),
              !.current_price = p,
              !.last_updated = now,
              !.price_history = HistoryAppend(m.price_history, p)]

\* The volatility expression raises ZeroDivisionError on a zero price in
\* the window and NameError at np.std when np is not bound.
VolatilityRaises(recent) ==
    \/ \E i \in 1..(Len(recent) - 1) : recent[i] = 0
    \/ ~np_imported

\* The volatility of a window, kept as the window it is computed from.
Volatility(recent) == Some(recent)

Put(md, id, m) ==
    [k \in (DOMAIN md) \cup {id} |-> IF k = id THEN m ELSE md[k]]

RECURSIVE ProcessMarkets(_, _, _, _, _, _)
\* The for loop of _update_market_data over entries i.. of the feed: the
\* table (mutated in place), the identifiers appended to updated_markets,
\* the (id, price) pairs written to the table, and whether an exception
\* ended the loop.
ProcessMarkets(md, entries, i, updated, applied, now) ==
    IF i > Len(entries)
    THEN [md |-> md, updated |-> updated, applied |-> applied,
          raised |-> FALSE]
    ELSE LET e == entries[i] IN
         IF IsNone(e.id) \/ Val(e.id) = "" \/ IsNone(e.current_price)
         THEN ProcessMarkets(md, entries, i + 1, updated, applied, now)
         ELSE LET id == Val(e.id)
                  p == Val(e.current_price)
                  m == IF id \in DOMAIN md
                       THEN UpdatedMarketData(md[id], p, now)
                       ELSE NewMarketData(p, now)
                  recent == LastN(m.price_history, VolWindow)
                  written == Append(applied, <<id, p>>)
              IN IF Len(m.price_history) > VolMinLen /\ Len(recent) > 1
                 THEN IF VolatilityRaises(recent)
                      THEN [md |-> Put(md, id, m), updated |-> updated,
                            applied |-> written, raised |-> TRUE]
                      ELSE ProcessMarkets(
                             Put(md, id, [m EXCEPT !.volatility = Volatility(recent)]),
                             entries, i + 1, Append(updated, id), written, now)
                 ELSE ProcessMarkets(Put(md, id, m), entries, i + 1,
                                     Append(updated, id), written, now)

RECURSIVE RemoveFirst(_, _)
\* list.remove(x) when x is in the list, else the list.
RemoveFirst(s, x) ==
    IF s = <<>> THEN <<>>
    ELSE IF s[1] = x THEN Tail(s)
    ELSE <<s[1]>> \o RemoveFirst(Tail(s), x)

\* A subscriber assigns to current_price of the snapshots it is told about,
\* through the table it is handed: the objects of table tb named in updated
\* change, in whatever table holds them.
SubscriberWrite(md, tb, updated) ==
    [k \in DOMAIN md |->
        IF k \in DOMAIN tb /\ \E j \in 1..Len(updated) : updated[j] = k
        THEN [md[k] EXCEPT !.current_price = 0]
        ELSE md[k]]

RECURSIVE NotifyLoop(_, _, _, _, _, _, _)
\* The for loop of _notify_subscribers from position i of the live list:
\* each callback is called with updated_markets and self.markets_data
\* itself, inside its own try/except.  behav says what each callback does:
\* return, raise, call remove_subscriber on itself, assign to a field of
\* the snapshots it is handed ("write"), or empty the table it is handed
\* ("clear").  md is self.markets_data; heap holds every MarketData object
\* by market id, those no longer in the table included.
NotifyLoop(subs, i, behav, log, md, heap, updated) ==
    IF i > Len(subs)
    THEN [subs |-> subs, log |-> log, md |-> md, heap |-> heap]
    ELSE LET sb == subs[i]
             after == IF behav[sb] = "unsubscribe" THEN RemoveFirst(subs, sb)
                      ELSE subs
             md2 == IF behav[sb] = "write" THEN SubscriberWrite(md, md, updated)
                    ELSE IF behav[sb] = "clear" THEN <<>>
                    ELSE md
             heap2 == IF behav[sb] = "write"
                      THEN SubscriberWrite(heap, md, updated)
                      ELSE heap
         IN NotifyLoop(after, i + 1, behav,
                       Append(log, [sub |-> sb, raised |-> behav[sb] = "raise"]),
                       md2, heap2, updated)

\* Mutant of OnFeedRaise: last_update is stamped although the fetch raised.
OnFeedRaise_Stamping(md, lu, subs, now) ==
    [md |-> md, last_update |-> now, subs |-> subs, notified |-> FALSE,
     log |-> <<>>, updated |-> <<>>, applied |-> <<>>, handed |-> <<>>,
     heap |-> md, outcome |-> "feed_raised"]

\* get_markets() raised: the except clause of _update_market_data logs the
\* error, nothing else was done.
OnFeedRaise(md, lu, subs, now) ==
    [md |-> md, last_update |-> lu, subs |-> subs, notified |-> FALSE,
     log |-> <<>>, updated |-> <<>>, applied |-> <<>>, handed |-> <<>>,
     heap |-> md, outcome |-> "feed_raised"]

\* _update_market_data on the feed answer raw at time now: the new table,
\* last_update and subscriber list, and the notification made, if any:
\* handed is the table as it was when _notify_subscribers was called, heap
\* every MarketData object as the tick leaves it.
UpdateMarketData(raw, md, lu, subs, behav, now) ==
    IF raw.kind = "raise"
    THEN OnFeedRaise(md, lu, subs, now)
    ELSE IF raw.kind = "none"
    THEN [md |-> md, last_update |-> lu, subs |-> subs, notified |-> FALSE,
          log |-> <<>>, updated |-> <<>>, applied |-> <<>>, handed |-> <<>>,
          heap |-> md, outcome |-> "no_markets"]
    ELSE LET r == ProcessMarkets(md, FirstN(raw.markets, FeedCap), 1, <<>>,
                                 <<>>, now)
             n == NotifyLoop(subs, 1, behav, <<>>, r.md, r.md, r.updated)
         IN IF r.raised
            THEN [md |-> r.md, last_update |-> lu, subs |-> subs,
                  notified |-> FALSE, log |-> <<>>, updated |-> <<>>,
                  applied |-> r.applied, handed |-> <<>>, heap |-> r.md,
                  outcome |-> "raised"]
            ELSE IF r.updated = <<>>
            THEN [md |-> r.md, last_update |-> now, subs |-> subs,
                  notified |-> FALSE, log |-> <<>>, updated |-> <<>>,
                  applied |-> r.applied, handed |-> <<>>, heap |-> r.md,
                  outcome |-> "done"]
            ELSE [md |-> n.md, last_update |-> now, subs |-> n.subs,
                  notified |-> TRUE, log |-> n.log, updated |-> r.updated,
                  applied |-> r.applied, handed |-> r.md, heap |-> n.heap,
                  outcome |-> "done"]

RECURSIVE Observe(_, _)
\* The record of applied prices, extended by those of one tick.
Observe(obs, applied) ==
    IF applied = <<>> THEN obs
    ELSE LET id == applied[1][1]
             p == applied[1][2]
             sofar == IF id \in DOMAIN obs THEN obs[id] ELSE <<>>
         IN Observe(Put(obs, id, Append(sofar, p)), Tail(applied))

-----------------------------------------------------------------------------
(* MarketDataStreamer: the worker threads and the calls of its owner       *)

MaxWorkers == 2
MaxTicks == 3
MaxSubs == 2
MaxHistTicks == 103

Workers == 1..MaxWorkers
SubIds == {"a", "b"}
Behaviours == {"return", "raise", "unsubscribe", "write", "clear"}

NoThread == 0

\* threading.Thread.is_alive(): started and not yet returned.
is_alive(w) == wpc[w] \in {"loop", "fetch", "sleep"}

\* Mutant of AfterTick: a tick that failed ends the worker.
AfterTick_DyingOnFailure(outcome) ==
    IF outcome \in {"feed_raised", "no_markets", "raised"} THEN "dead"
    ELSE "sleep"

\* Where _streaming_loop goes after _update_market_data, which catches every
\* Exception itself: to time.sleep, in the try or in the except branch.
AfterTick(outcome) == "sleep"

\* Mutant of LoopCheck: while True, the flag is not read.
LoopCheck_IgnoringFlag(w) ==
    /\ wpc[w] = "loop"
    /\ wpc' = [wpc EXCEPT ![w] = "fetch"]
    /\ UNCHANGED <<running, thread, markets_data, last_update, subscribers,
                   ticks, lastTick, notifications, lastNotified, observed,
                   ctl, stopped, returned>>
    /\ UNCHANGED ledgerVars

\* while self.running: the worker enters the next cycle or leaves the loop.
LoopCheck(w) ==
    /\ wpc[w] = "loop"
    /\ wpc' = [wpc EXCEPT ![w] = IF running THEN "fetch" ELSE "dead"]
    /\ UNCHANGED <<running, thread, markets_data, last_update, subscribers,
                   ticks, lastTick, notifications, lastNotified, observed,
                   ctl, stopped, returned>>
    /\ UNCHANGED ledgerVars

\* What a caller sees through the table get_all_markets_data() returned to
\* it once a tick has run: the returned dict is the caller's own, the
\* MarketData objects in it are the streamer's for as long as the streamer's
\* table holds them (shared), and are then in the state the tick left them.
ViewAfterTick(view, md, heap) ==
    [view EXCEPT
        !.table = [k \in DOMAIN view.table |->
                      IF k \in view.shared THEN heap[k] ELSE view.table[k]],
        !.shared = view.shared \cap DOMAIN md]

\* What one run of _update_market_data, with result r, leaves behind.
TickEffect(w, r, raw) ==
    /\ markets_data' = r.md
    /\ last_update' = r.last_update
    /\ subscribers' = r.subs
    /\ ticks' = ticks + 1
    /\ lastTick' = [worker |-> w, outcome |-> r.outcome, feed |-> raw]
    /\ notifications' = IF r.notified THEN notifications + 1
                        ELSE notifications
    /\ lastNotified' = IF r.notified
                       THEN [updated |-> r.updated, log |-> r.log,
                             registered |-> subscribers, table |-> r.handed]
                       ELSE lastNotified
    /\ observed' = Observe(observed, r.applied)
    /\ returned' = ViewAfterTick(returned, r.md, r.heap)

\* The feed answers the worker's get_markets() call with raw and the rest of
\* _update_market_data runs, the notification included.
Tick(w, raw, behav) ==
    /\ wpc[w] = "fetch"
    /\ ticks < MaxTicks
    /\ LET r == UpdateMarketData(raw, markets_data, last_update, subscribers,
                                 behav, ticks + 1)
       IN /\ TickEffect(w, r, raw)
          /\ wpc' = [wpc EXCEPT ![w] = AfterTick(r.outcome)]
    /\ UNCHANGED <<running, thread, ctl, stopped>>
    /\ UNCHANGED ledgerVars

\* _update_market_data() called directly, on no worker thread.
DirectTick(raw, behav) ==
    /\ ticks < MaxHistTicks
    /\ TickEffect(NoThread,
                  UpdateMarketData(raw, markets_data, last_update, subscribers,
                                   behav, ticks + 1),
                  raw)
    /\ UNCHANGED <<running, thread, wpc, ctl, stopped>>
    /\ UNCHANGED ledgerVars

\* time.sleep(self.update_interval) returns.
SleepReturn(w) ==
    /\ wpc[w] = "sleep"
    /\ wpc' = [wpc EXCEPT ![w] = "loop"]
    /\ UNCHANGED <<running, thread, markets_data, last_update, subscribers,
                   ticks, lastTick, notifications, lastNotified, observed,
                   ctl, stopped, returned>>
    /\ UNCHANGED ledgerVars

\* start_streaming(): returns at once when running, else sets the flag and
\* starts a new worker thread.
StartStreaming ==
    /\ ctl = "idle"
    /\ IF running
       THEN UNCHANGED <<running, thread, wpc, stopped>>
       ELSE /\ \E w \in Workers : wpc[w] = "new"
            /\ LET w == CHOOSE x \in Workers :
                            wpc[x] = "new" /\ \A y \in Workers :
                                                wpc[y] = "new" => x <= y
               IN /\ running' = TRUE
                  /\ thread' = w
                  /\ wpc' = [wpc EXCEPT ![w] = "loop"]
                  /\ stopped' = FALSE
    /\ UNCHANGED <<markets_data, last_update, subscribers, ticks, lastTick,
                   notifications, lastNotified, observed, ctl, returned>>
    /\ UNCHANGED ledgerVars

\* stop_streaming() up to its join: clears the flag, and waits for the
\* thread if there is one and it is alive.
StopBegin ==
    /\ ctl = "idle"
    /\ running' = FALSE
    /\ IF thread # NoThread /\ is_alive(thread)
       THEN ctl' = "joining" /\ UNCHANGED stopped
       ELSE ctl' = "idle" /\ stopped' = TRUE
    /\ UNCHANGED <<thread, wpc, markets_data, last_update, subscribers, ticks,
                   lastTick, notifications, lastNotified, observed, returned>>
    /\ UNCHANGED ledgerVars

\* join(timeout=5) gives up on a worker blocked in get_markets() (which has
\* no timeout) or in time.sleep(update_interval).
JoinTimesOut == wpc[thread] \in {"fetch", "sleep"}

\* thread.join(timeout=5) returns, the worker dead or the timeout over, and
\* stop_streaming() returns.
StopJoin ==
    /\ ctl = "joining"
    /\ wpc[thread] = "dead" \/ JoinTimesOut
    /\ ctl' = "idle"
    /\ stopped' = TRUE
    /\ UNCHANGED <<running, thread, wpc, markets_data, last_update,
                   subscribers, ticks, lastTick, notifications, lastNotified,
                   observed, returned>>
    /\ UNCHANGED ledgerVars

add_subscriber(sb) ==
    /\ Len(subscribers) < MaxSubs
    /\ subscribers' = Append(subscribers, sb)
    /\ UNCHANGED <<running, thread, wpc, markets_data, last_update, ticks,
                   lastTick, notifications, lastNotified, observed, ctl,
                   stopped, returned>>
    /\ UNCHANGED ledgerVars

remove_subscriber(sb) ==
    /\ subscribers' = RemoveFirst(subscribers, sb)
    /\ UNCHANGED <<running, thread, wpc, markets_data, last_update, ticks,
                   lastTick, notifications, lastNotified, observed, ctl,
                   stopped, returned>>
    /\ UNCHANGED ledgerVars

\* get_all_markets_data(): self.markets_data.copy(), a new dict that
\* holds the same MarketData objects.
get_all_markets_data ==
    /\ returned' = [taken |-> TRUE, table |-> markets_data,
                    shared |-> DOMAIN markets_data]
    /\ UNCHANGED <<running, thread, wpc, markets_data, last_update,
                   subscribers, ticks, lastTick, notifications, lastNotified,
                   observed, ctl, stopped>>
    /\ UNCHANGED ledgerVars

InitStream ==
    /\ running = FALSE
    /\ thread = NoThread
    /\ wpc = [w \in Workers |-> "new"]
    /\ markets_data = <<>>
    /\ last_update = 0
    /\ subscribers = <<>>
    /\ ticks = 0
    /\ lastTick = [worker |-> NoThread, outcome |-> "none",
                   feed |-> [kind |-> "none", markets |-> <<>>]]
    /\ notifications = 0
    /\ lastNotified = [updated |-> <<>>, log |-> <<>>, registered |-> <<>>,
                       table |-> <<>>]
    /\ observed = <<>>
    /\ ctl = "idle"
    /\ stopped = FALSE
    /\ returned = [taken |-> FALSE, table |-> <<>>, shared |-> {}]

-----------------------------------------------------------------------------------------------------------------------------------------------------
(* Specifications                                                          *)

Init == InitLedger /\ InitStream

Entry(id, price) == [id |-> id, current_price |-> price]

FeedRaises == [kind |-> "raise", markets |-> <<>>]
FeedEmpty == [kind |-> "none", markets |-> <<>>]
FeedMarkets(ms) == [kind |-> "markets", markets |-> ms]

\* The owner's start and stop calls interleaved with the workers' steps.
StreamFeeds ==
    {FeedRaises, FeedEmpty, FeedMarkets(<<Entry(Some("m1"), Some(1))>>)}
StreamSubIds == {"a"}
StreamBehaviours == {"return"}

NextStream ==
    \/ \E w \in Workers : LoopCheck(w)
    \/ \E w \in Workers, raw \in StreamFeeds,
          behav \in [StreamSubIds -> StreamBehaviours] : Tick(w, raw, behav)
    \/ \E w \in Workers : SleepReturn(w)
    \/ StartStreaming
    \/ StopBegin
    \/ StopJoin
    \/ \E sb \in StreamSubIds : add_subscriber(sb)

SpecStream == Init /\ [][NextStream]_vars

\* The scheduler runs every thread that can take a step: a worker that is
\* at its while test, or whose sleep is over, is not held back for ever.
WorkerProgress(w) == LoopCheck(w) \/ SleepReturn(w)

SpecStreamFair ==
    SpecStream /\ \A w \in Workers : WF_vars(WorkerProgress(w))

\* The owner's start and stop calls and the workers' steps, without
\* subscribers, when every thread that can take a step is run and every
\* fetch in flight returns.
NoSubscriberActs == [sb \in StreamSubIds |-> "return"]

\* The fetch of worker w returns, with no market list or with one market.
FetchReturns(w) ==
    \/ Tick(w, FeedEmpty, NoSubscriberActs)
    \/ Tick(w, FeedMarkets(<<Entry(Some("m1"), Some(1))>>), NoSubscriberActs)

WorkerStep(w) == LoopCheck(w) \/ FetchReturns(w) \/ SleepReturn(w)

NextStop ==
    \/ \E w \in Workers : LoopCheck(w)
    \/ \E w \in Workers : FetchReturns(w)
    \/ \E w \in Workers : SleepReturn(w)
    \/ StartStreaming
    \/ StopBegin
    \/ StopJoin

SpecStopFair ==
    Init /\ [][NextStop]_vars /\ \A w \in Workers : WF_vars(WorkerStep(w))

\* One worker polling, never stopped, and distinct subscribers that come,
\* go, raise and unsubscribe themselves.
NotifyFeeds ==
    {FeedRaises, FeedEmpty}
    \cup {FeedMarkets(<<Entry(Some("m1"), Some(p))>>) : p \in {1, 2}}

NextNotify ==
    \/ StartStreaming
    \/ LoopCheck(1)
    \/ \E raw \in NotifyFeeds, behav \in [SubIds -> Behaviours] :
          Tick(1, raw, behav)
    \/ SleepReturn(1)
    \/ \E sb \in SubIds :
          /\ \A i \in 1..Len(subscribers) : subscribers[i] # sb
          /\ add_subscriber(sb)
    \/ \E sb \in SubIds : remove_subscriber(sb)

SpecNotify == Init /\ [][NextNotify]_vars

\* _update_market_data called over and over on the feed of one market
\* whose price never falls.
HistPrices == {1, 2}

HistFeeds ==
    {FeedMarkets(<<Entry(Some("m1"), Some(p))>>) :
        p \in {q \in HistPrices :
                 "m1" \in DOMAIN markets_data
                    => q >= markets_data["m1"].current_price}}

NextHist ==
    \E raw \in HistFeeds, behav \in [SubIds -> {"return"}] :
        DirectTick(raw, behav)

SpecHist == Init /\ [][NextHist]_vars

\* One worker polling a feed whose answers list up to 21 entries, the
\* leading ones and some of the others without an identifier or without a
\* price, and a subscriber.
Pad(k) == [i \in 1..k |-> IF i % 2 = 0 THEN Entry(None, Some(1))
                                      ELSE Entry(Some("m2"), None)]

TailEntries ==
    {Entry(Some("m1"), Some(1)), Entry(Some("m2"), Some(2)),
     Entry(None, Some(1)), Entry(Some(""), Some(1)), Entry(Some("m1"), None)}

FeedLists ==
    {Pad(k) \o <<e, f>> :
        k \in {0, FeedCap - 1}, e \in TailEntries,
        f \in {Entry(Some("m1"), Some(1)), Entry(Some("m2"), Some(2))}}
    \cup {Pad(FeedCap) \o <<Entry(Some("m1"), Some(1))>>}

NextFeed ==
    \/ StartStreaming
    \/ LoopCheck(1)
    \/ \E ms \in FeedLists : Tick(1, FeedMarkets(ms), [sb \in SubIds |-> "return"])
    \/ SleepReturn(1)
    \/ /\ subscribers = <<>>
       /\ add_subscriber("a")

SpecFeed == Init /\ [][NextFeed]_vars

\* One worker polling two markets while a caller takes the table with
\* get_all_markets_data() and keeps it.
ViewFeeds ==
    {FeedMarkets(<<Entry(Some(m), Some(p))>>) : m \in {"m1", "m2"}, p \in {1, 2}}

NextView ==
    \/ StartStreaming
    \/ LoopCheck(1)
    \/ \E raw \in ViewFeeds, behav \in [SubIds -> {"return"}] :
          Tick(1, raw, behav)
    \/ SleepReturn(1)
    \/ get_all_markets_data

SpecView == Init /\ [][NextView]_vars

-----------------------------------------------------------------------------
(* The ledger specification: any sequence of record, close and query calls *)

Record ==
    \E tid \in TradeIds, mkt \in MarketIds, strat \in Strategies,
       side \in LedgerSides, qty \in Quantities, price \in EntryPrices :
        /\ Len(trades) < MaxTrades
        /\ RecordTrade(tid, mkt, strat, side, qty, price)

Close ==
    \E tid \in TradeIds, exit_price \in ExitPrices, reason \in Reasons :
        CloseTrade(tid, exit_price, reason)

Query ==
    \/ get_trade_statistics
    \/ get_strategy_performance
    \/ get_market_performance
    \/ get_time_based_performance
    \/ get_risk_adjusted_metrics
    \/ generate_performance_report

NextLedger == Record \/ Close \/ Query \/ AdvanceClock

SpecLedger == Init /\ [][NextLedger]_vars

\* One trade of any side, size and price, recorded and then closed.
MaxCloseTrades == 1

CloseSides == {"buy", "BUY", "sell", "short"}
CloseQuantities == {0, 5, 10}
CloseEntryPrices == {50, 100}
CloseExitPrices == {50, 60, 90, 100}

RecordOne ==
    \E tid \in TradeIds, side \in CloseSides, qty \in CloseQuantities,
       price \in CloseEntryPrices :
        /\ Len(trades) < MaxCloseTrades
        /\ RecordTrade(tid, "m1", "s1", side, qty, price)

CloseOne ==
    \E tid \in TradeIds, exit_price \in CloseExitPrices :
        CloseTrade(tid, exit_price, "manual")

NextClose == RecordOne \/ CloseOne

SpecClose == Init /\ [][NextClose]_vars

\* A series of one-unit buy trades entered at 50 and closed in list order,
\* and the two queries that read the P&L series.
MaxSeriesTrades == 3

SeriesEntryPrices == {50}
SeriesExitPrices == {20, 50, 55, 60, 70}

RecordSeries ==
    \E price \in SeriesEntryPrices :
        /\ Len(trades) < MaxSeriesTrades
        /\ RecordTrade("T1", "m1", "s1", "buy", 1, price)

CloseSeries ==
    \E exit_price \in SeriesExitPrices : CloseTrade("T1", exit_price, "manual")

NextSeries ==
    \/ RecordSeries
    \/ CloseSeries
    \/ get_trade_statistics
    \/ get_risk_adjusted_metrics

SpecSeries == Init /\ [][NextSeries]_vars

-----------------------------------------------------------------------------
(* Properties of the streamer                                              *)

\* The workers that are inside _streaming_loop.
InLoop == {w \in Workers : is_alive(w)}

\* A step that is a run of _update_market_data.
IsTick == ticks' # ticks

StreamDataUnchanged ==
    /\ markets_data' = markets_data
    /\ last_update' = last_update
    /\ notifications' = notifications
    /\ lastNotified' = lastNotified

\* C2: under any interleaving of start_streaming and stop_streaming calls
\* at most one worker is in the streaming loop, and while the streamer is
\* running no call creates a worker or changes the thread.
C2_AtMostOneWorker ==
    /\ [](Cardinality(InLoop) <= 1)
    /\ [][running => (thread' = thread
                      /\ \A w \in Workers : wpc[w] = "new" => wpc'[w] = "new")]_vars

\* C3: after stop_streaming() has returned, and before a later
\* start_streaming(), no step changes a snapshot, the snapshot table or
\* last_update, and no notification is made.
C3_NoTickAfterStop ==
    [][stopped => StreamDataUnchanged]_vars

\* The prices of observed sequence obs that the history must hold: its last
\* min(HistoryCap, k) entries, in order.
HoldsMostRecent(h, obs) ==
    LET k == Len(obs)
        n == IF k < HistoryCap THEN k ELSE HistoryCap
    IN /\ Len(h) = n
       /\ \A i \in 1..n : h[i] = obs[k - n + i]

\* C5: after any number of ticks every snapshot's price history has at most
\* 100 entries and holds, in arrival order, the most recent min(100, k) of
\* the k prices the ticks applied to that market.
C5_HistoryHoldsMostRecent ==
    /\ DOMAIN observed = DOMAIN markets_data
    /\ \A id \in DOMAIN markets_data :
        /\ Len(markets_data[id].price_history) <= HistoryCap
        /\ HoldsMostRecent(markets_data[id].price_history, observed[id])

\* C5 witness: more than 100 prices were applied to a market and the first
\* one, different from those that followed, is no longer in its history.
C5_Witness ==
    \E id \in DOMAIN markets_data :
        /\ Len(observed[id]) > HistoryCap
        /\ Len(markets_data[id].price_history) = HistoryCap
        /\ \A i \in 1..HistoryCap :
              markets_data[id].price_history[i] # observed[id][1]

\* C6: a tick whose feed call raises leaves last_update, every snapshot and
\* the set of tracked markets unchanged and invokes no subscriber.
C6_FeedErrorChangesNothing ==
    [][(IsTick /\ lastTick'.outcome = "feed_raised")
        => (StreamDataUnchanged /\ subscribers' = subscribers)]_vars

\* C6 witness: the feed has just raised on a streamer that tracks a market
\* and has a subscriber that was notified before.
C6_Witness ==
    /\ lastTick.outcome = "feed_raised"
    /\ DOMAIN markets_data # {}
    /\ subscribers # <<>>
    /\ notifications > 0
    /\ last_update < ticks

\* A tick of worker w has just failed (the feed raised or returned no market
\* list) while the streamer is running.
FailedTick(w) ==
    /\ lastTick.worker = w
    /\ lastTick.outcome \in {"feed_raised", "no_markets"}
    /\ wpc[w] = "sleep"
    /\ running

\* C7: a failing tick leaves its worker in the loop, and unless the
\* streamer is stopped the worker attempts another tick.
C7_FailedTickRetried ==
    /\ [][\A w \in Workers :
            (IsTick /\ lastTick'.worker = w
                /\ lastTick'.outcome \in {"feed_raised", "no_markets"})
            => wpc'[w] = "sleep"]_vars
    /\ \A w \in Workers : FailedTick(w) ~> (wpc[w] = "fetch" \/ ~running)

\* C7 witness: a worker sleeps after a tick that failed.
C7_Witness == \E w \in Workers : FailedTick(w)

\* C8: in each notification every registered subscriber is invoked exactly
\* once, in registration order, whatever the subscribers do, and no worker
\* of a running streamer has left the loop.
C8_EverySubscriberInvoked ==
    /\ notifications > 0 =>
        [i \in 1..Len(lastNotified.log) |-> lastNotified.log[i].sub]
            = lastNotified.registered
    /\ running => \A w \in Workers : wpc[w] # "dead"

\* The fetch of worker w is in flight and does not return: the ticks the
\* model follows are used up.
FetchPending(w) == wpc[w] = "fetch" /\ ticks >= MaxTicks

\* C22: once stop_streaming() has cleared the flag, and as long as no
\* start_streaming() sets it again, no worker begins another tick (a worker
\* runs at most the tick whose fetch was already in flight), and every
\* worker whose fetch and sleep return leaves its loop.
C22_StopIsEffective ==
    /\ [][~running =>
            \A w \in Workers : wpc[w] # "fetch" => wpc'[w] # "fetch"]_vars
    /\ \A w \in Workers :
            (~running /\ is_alive(w))
                ~> (running \/ wpc[w] = "dead" \/ FetchPending(w))

\* C22 witness: stop_streaming() has returned while its worker was still in
\* its fetch, and the worker has since run that tick and left the loop.
C22_Witness ==
    /\ stopped /\ ~running
    /\ thread # NoThread /\ wpc[thread] = "dead"
    /\ lastTick.worker = thread
    /\ \A w \in Workers : w # thread => wpc[w] = "new"

\* A feed entry that carries an identifier and a current price.
ValidEntry(e) ==
    /\ e.id # <<>>
    /\ e.id # <<"">>
    /\ e.current_price # <<>>

\* C23: in a tick that completes, the identifiers updated and reported to
\* the subscribers are exactly those of the entries, among the first 20 of
\* the feed, that carry an identifier and a current price, in feed order;
\* the other entries are skipped, the entries after the 20th are not
\* applied, and no other snapshot changes.
C23_ValidEntriesOfFirstTwenty ==
    [][(IsTick /\ lastTick'.outcome = "done") =>
        LET ms == lastTick'.feed.markets
            n == IF Len(ms) < 20 THEN Len(ms) ELSE 20
            valid == SelectSeq([i \in 1..n |-> ms[i]], ValidEntry)
            ids == [i \in 1..Len(valid) |-> valid[i].id[1]]
            idset == {ids[i] : i \in 1..Len(ids)}
        IN /\ DOMAIN markets_data' = DOMAIN markets_data \cup idset
           /\ \A k \in DOMAIN markets_data \ idset :
                 markets_data'[k] = markets_data[k]
           /\ \A i \in 1..Len(valid) :
                 /\ markets_data'[ids[i]].last_updated = ticks'
                 /\ (\A j \in (i + 1)..Len(valid) : ids[j] # ids[i])
                     => markets_data'[ids[i]].current_price
                            = valid[i].current_price[1]
           /\ ids # <<>> => /\ notifications' = notifications + 1
                            /\ lastNotified'.updated = ids
                            /\ Len(lastNotified'.log) = Len(subscribers)
           /\ ids = <<>> => notifications' = notifications]_vars

\* C23 witness: a tick has completed on a feed of 21 entries whose first 19
\* entries were skipped, whose 20th entry, for m1, was applied and reported
\* to the subscriber, and whose 21st entry, a valid one for m2, was not.
C23_Witness ==
    /\ lastTick.outcome = "done"
    /\ Len(lastTick.feed.markets) = 21
    /\ lastTick.feed.markets[20] = Entry(Some("m1"), Some(1))
    /\ lastTick.feed.markets[21] = Entry(Some("m2"), Some(2))
    /\ "m1" \in DOMAIN markets_data
    /\ "m2" \notin DOMAIN markets_data
    /\ lastNotified.updated = <<"m1">>
    /\ Len(lastNotified.log) = 1

\* C24: a tick that applies price p to a new identifier creates a snapshot
\* with current price p, previous price null and history [p]; applied to a
\* known identifier it makes the old current price the previous price, p
\* the current price and appends p to the history.  So previous price is
\* null exactly for the markets observed once and is the second-to-last
\* observed price of the others.
C24_PreviousPriceShifts ==
    /\ [][IsTick =>
            \A id \in DOMAIN observed' :
                LET seen == IF id \in DOMAIN observed THEN observed[id]
                            ELSE <<>>
                    p == observed'[id][Len(observed'[id])]
                    new == markets_data'[id]
                IN Len(observed'[id]) = Len(seen) + 1 =>
                    IF id \notin DOMAIN markets_data
                    THEN /\ new.current_price = p
                         /\ new.previous_price = <<>>
                         /\ new.price_history = <<p>>
                    ELSE LET old == markets_data[id] IN
                         /\ new.current_price = p
                         /\ new.previous_price = <<old.current_price>>
                         /\ new.price_history[Len(new.price_history)] = p
                         /\ Len(old.price_history) < 100
                             => new.price_history
                                    = old.price_history \o <<p>>]_vars
    /\ [](\A id \in DOMAIN markets_data :
            LET k == Len(observed[id]) IN
            /\ markets_data[id].current_price = observed[id][k]
            /\ k = 1 <=> markets_data[id].previous_price = <<>>
            /\ k > 1 => markets_data[id].previous_price
                            = <<observed[id][k - 1]>>)

\* C24 witness: m1 was observed at 1 and then at 2 and holds 1 as its
\* previous price, and m2, observed once, has none.
C24_Witness ==
    /\ DOMAIN markets_data = {"m1", "m2"}
    /\ observed["m1"] = <<1, 2>>
    /\ markets_data["m1"].previous_price = <<1>>
    /\ markets_data["m1"].price_history = <<1, 2>>
    /\ Len(observed["m2"]) = 1
    /\ markets_data["m2"].previous_price = <<>>

\* C26: a tick is all-or-nothing: one whose processing raises partway has
\* changed no snapshot, and any other tick that got a market list has
\* stamped last_update and, having applied entries, notified.
C26_TickAllOrNothing ==
    [][IsTick =>
        /\ lastTick'.outcome = "raised" => markets_data' = markets_data
        /\ lastTick'.outcome = "done" =>
            /\ last_update' = ticks'
            /\ observed' # observed => notifications' = notifications + 1]_vars

\* The window of at most VolWindow points that ends the history h.
RecentWindow(h) ==
    LET n == IF Len(h) < 20 THEN Len(h) ELSE 20
    IN [i \in 1..n |-> h[Len(h) - n + i]]

\* C16: after any sequence of ticks a snapshot's volatility is null while
\* its price history has at most 10 entries, and once a tick has left the
\* history longer than 10 the volatility is the value computed from exactly
\* the most recent min(20, length) history points.
C16_VolatilityFromRecentWindow ==
    \A id \in DOMAIN markets_data :
        LET m == markets_data[id] IN
        /\ Len(m.price_history) <= 10 => IsNone(m.volatility)
        /\ Len(m.price_history) > 10
            => m.volatility = Volatility(RecentWindow(m.price_history))

\* C17: the table get_all_markets_data() returned is a copy that no later
\* tick changes: neither its set of keys nor any field of a snapshot seen
\* through it.
C17_ReturnedTableIsACopy ==
    [][(IsTick /\ returned.taken)
        => /\ DOMAIN returned'.table = DOMAIN returned.table
           /\ returned'.table = returned.table]_vars

\* C18: what subscribers do to the table they are handed (deleting entries,
\* assigning to a snapshot's fields) changes neither the streamer's table
\* nor its snapshots: after a notification the streamer's table is the one
\* it handed over.
C18_SubscribersCannotChangeTable ==
    [][(IsTick /\ notifications' # notifications)
        => markets_data' = lastNotified'.table]_vars

-----------------------------------------------------------------------------
(* Properties of the ledger                                                *)

\* A step that is a ledger call.
IsCall == lastCall'.seq # lastCall.seq

\* A step that is the call close(tid, ...).
IsClose(tid) == IsCall /\ lastCall'.op = "close" /\ lastCall'.id = tid

LedgerUnchanged == trades' = trades /\ daily_pnl' = daily_pnl

TradesWithId(tid) == {i \in 1..Len(trades) : trades[i].trade_id = tid}

\* C1 (as claimed): for any ledger, after a close(id) that returned True the
\* next close(id) returns False and changes no trade and no bucket.
C1_SecondCloseFails ==
    [][\A tid \in TradeIds :
        (IsClose(tid) /\ tid \in okClosed)
            => (lastCall'.ret = "False" /\ LedgerUnchanged)]_vars

\* C1 (amended): the same, for a ledger that holds at most one trade with
\* that identifier when the second close is made.
C1_SecondCloseFailsUniqueId ==
    [][\A tid \in TradeIds :
        (IsClose(tid) /\ tid \in okClosed /\ Cardinality(TradesWithId(tid)) <= 1)
            => (lastCall'.ret = "False" /\ LedgerUnchanged)]_vars

\* C1 witness: a close of T1 has just failed on a ledger whose only trade T1
\* was closed by an earlier, successful close.
C1_Witness ==
    /\ lastCall.op = "close" /\ lastCall.id = "T1" /\ lastCall.ret = "False"
    /\ \E i \in 1..Len(trades) :
        /\ TradesWithId("T1") = {i}
        /\ is_closed(trades[i])
        /\ ~IsNone(trades[i].pnl_pct)

\* C4: close on an Open trade whose entry notional is zero returns True,
\* sets exit price, time, reason and pnl, adds pnl to the exit-date bucket
\* and leaves pnl_pct undefined.
C4_ZeroNotionalCloseReturns ==
    [][\A tid \in TradeIds :
        LET i == FirstMatch(trades, tid) IN
        (IsClose(tid) /\ i # 0 /\ EntryValue(trades[IF i = 0 THEN 1 ELSE i]) = 0)
            => /\ lastCall'.ret = "True"
               /\ ~IsNone(trades'[i].exit_price)
               /\ trades'[i].exit_time = Some(today)
               /\ ~IsNone(trades'[i].exit_reason)
               /\ ~IsNone(trades'[i].pnl)
               /\ IsNone(trades'[i].pnl_pct)
               /\ today \in DOMAIN daily_pnl'
               /\ daily_pnl'[today] =
                    (IF today \in DOMAIN daily_pnl THEN daily_pnl[today] ELSE 0)
                    + Val(trades'[i].pnl)]_vars

\* C9: no statistics or reporting query changes the trade list, a trade's
\* fields or a daily P&L bucket.
C9_QueriesLeaveLedger ==
    [][(IsCall /\ lastCall'.op \in QueryOps) => LedgerUnchanged]_vars

\* C9 witness: a query has returned on a ledger with a closed trade and a
\* non-empty bucket table.
C9_Witness ==
    /\ lastCall.op \in QueryOps
    /\ lastCall.ret = "result"
    /\ Len(ClosedTrades(trades)) > 0
    /\ DOMAIN daily_pnl # {}

\* C10: in every ledger state reached through record and close, each
\* statistics and report query returns a result and does not raise.
C10_QueriesNeverRaise ==
    /\ TradeStatistics(trades, daily_pnl) # Raised
    /\ StrategyPerformance(trades) # Raised
    /\ MarketPerformance(trades) # Raised
    /\ TimeBasedPerformance(trades) # Raised
    /\ RiskAdjustedMetrics(trades, daily_pnl) # Raised
    /\ PerformanceReport(trades, daily_pnl) # Raised

\* The closed trades with a P&L above zero, and those at or below it.
Winners == {i \in 1..Len(trades) :
              is_closed(trades[i]) /\ Val(trades[i].pnl) > 0}
Losers == {i \in 1..Len(trades) :
             is_closed(trades[i]) /\ Val(trades[i].pnl) <= 0}
ClosedIdx == {i \in 1..Len(trades) : is_closed(trades[i])}

\* C11: after any sequence of record and close calls with at least one
\* closed trade, the overall statistics are returned and in them
\* winning_trades + losing_trades = closed_trades, winners being the closed
\* trades with pnl > 0 and losers those with pnl <= 0, and
\* open_trades + closed_trades = total_trades.
C11_CountsAddUp ==
    LET s == TradeStatistics(trades, daily_pnl) IN
    ClosedIdx # {} =>
        /\ s # Raised
        /\ s.winning_trades = Cardinality(Winners)
        /\ s.losing_trades = Cardinality(Losers)
        /\ s.closed_trades = Cardinality(ClosedIdx)
        /\ s.winning_trades + s.losing_trades = s.closed_trades
        /\ s.open_trades + s.closed_trades = s.total_trades
        /\ s.total_trades = Len(trades)

\* The percent return pct, a fraction, has the value n.
PctIs(pct, n) == ~IsNone(pct) /\ Val(pct).num = n * Val(pct).den

\* C12: a close that returns True sets pnl to (exit - entry) x quantity for
\* side buy and (entry - exit) x quantity for any other side, and pnl_pct to
\* pnl / (entry x quantity) x 100; so with a positive quantity a buy gains
\* iff exit > entry and a sell gains iff exit < entry (buy 10 at 50 closed
\* at 60: pnl 100, 20 percent; sell 5 at 100 closed at 90: pnl 50, 10
\* percent).
C12_PnlOfSuccessfulClose ==
    [][(IsCall /\ lastCall'.op = "close" /\ lastCall'.ret = "True") =>
        /\ \E i \in 1..Len(trades) : trades'[i] # trades[i]
        /\ \A i \in 1..Len(trades) : trades'[i] # trades[i] =>
            LET t == trades[i]
                c == trades'[i]
                x == Val(c.exit_price)
                e == t.entry_price
                q == t.quantity
                buy == t.side \in {"buy", "BUY"}
                pnl == Val(c.pnl)
            IN /\ buy => pnl = (x - e) * q
               /\ ~buy => pnl = (e - x) * q
               /\ ~IsNone(c.pnl_pct)
               /\ Val(c.pnl_pct).num * (e * q) = pnl * 100 * Val(c.pnl_pct).den
               /\ (q > 0 /\ buy) => (pnl > 0 <=> x > e)
               /\ (q > 0 /\ t.side = "sell") => (pnl > 0 <=> x < e)
               /\ (buy /\ q = 10 /\ e = 50 /\ x = 60)
                    => (pnl = 100 /\ PctIs(c.pnl_pct, 20))
               /\ (t.side = "sell" /\ q = 5 /\ e = 100 /\ x = 90)
                    => (pnl = 50 /\ PctIs(c.pnl_pct, 10))]_vars

\* C12 witness: the sell trade of 5 units entered at 100 has just been
\* closed at 90 by a close that returned True.
C12_Witness ==
    /\ lastCall.op = "close" /\ lastCall.ret = "True"
    /\ \E i \in 1..Len(trades) :
        /\ trades[i].side = "sell" /\ trades[i].quantity = 5
        /\ trades[i].entry_price = 100
        /\ trades[i].exit_price = Some(90)
        /\ trades[i].pnl = Some(50)

\* The closed trades cs, whose exit times all differ, in closing order.
ClosingOrder(cs) ==
    LET n == Len(cs)
        f == CHOOSE g \in [1..n -> 1..n] :
                \A i, j \in 1..n :
                    i < j => Val(cs[g[i]].exit_time) < Val(cs[g[j]].exit_time)
    IN [i \in 1..n |-> cs[f[i]]]

DistinctExitTimes(cs) ==
    \A i, j \in 1..Len(cs) : i # j => cs[i].exit_time # cs[j].exit_time

\* C13: max_drawdown of the overall statistics is the drawdown of the closed
\* trades' P&L taken in the order in which the trades were closed, also
\* when that is not the order in which they were recorded (stated for the
\* ledgers whose closes happened at different times of the clock).
C13_DrawdownInClosingOrder ==
    LET cs == ClosedTrades(trades)
        s == TradeStatistics(trades, daily_pnl)
    IN (cs # <<>> /\ s # Raised /\ DistinctExitTimes(cs)) =>
        s.max_drawdown = MaxDrawdown(PnlSeries(ClosingOrder(cs)))

SetMax(S) == CHOOSE x \in S : \A y \in S : y <= x

\* C_i, the sum of the first i entries of the series p.
PartialSum(p, i) == SumSeq(SubSeq(p, 1, i))

\* The maximum over i of (the maximum over j <= i of C_j) - C_i.
DrawdownByDefinition(p) ==
    SetMax({SetMax({PartialSum(p, j) : j \in 1..i}) - PartialSum(p, i) :
                i \in 1..Len(p)})

\* C14: for the P&L series p of the closed trades, max_drawdown is the
\* maximum over i of (max over j <= i of C_j) - C_i; it is 0 when the
\* cumulative sum never decreases (as for [10, 20, 5]) and 30 for
\* [10, -30, 5].
C14_DrawdownFormula ==
    LET p == PnlSeries(ClosedTrades(trades))
        s == TradeStatistics(trades, daily_pnl)
    IN p # <<>> =>
        /\ s # Raised
        /\ s.max_drawdown = DrawdownByDefinition(p)
        /\ (\A i \in 2..Len(p) : PartialSum(p, i) >= PartialSum(p, i - 1))
                => s.max_drawdown = 0
        /\ p = <<10, 20, 5>> => s.max_drawdown = 0
        /\ p = <<10, -30, 5>> => s.max_drawdown = 30

\* C14 witness: get_trade_statistics has returned on the ledger whose
\* closed trades have the P&L series [10, -30, 5].
C14_Witness ==
    /\ lastCall.op = "get_trade_statistics" /\ lastCall.ret = "result"
    /\ PnlSeries(ClosedTrades(trades)) = <<10, -30, 5>>
    /\ TradeStatistics(trades, daily_pnl).max_drawdown = 30

\* The closed trades whose percent return is defined.
DefinedReturns == {i \in ClosedIdx : ~IsNone(trades[i].pnl_pct)}

\* C15: get_risk_adjusted_metrics returns the insufficient-data result (an
\* error marker, no ratios) if and only if fewer than 2 closed trades have
\* a defined percent return; with 2 or more, returns of exactly 0 among
\* them, it returns the ratios.
C15_InsufficientDataIffFewReturns ==
    LET r == RiskAdjustedMetrics(trades, daily_pnl) IN
    /\ r # Raised
    /\ ("error" \in DOMAIN r) <=> (Cardinality(DefinedReturns) < 2)
    /\ ("ratios" \in DOMAIN r) <=> (Cardinality(DefinedReturns) >= 2)

\* C19 (as claimed): in every ledger state, for every trade, pnl, pnl_pct
\* and holding period are all present if the trade is Closed and all absent
\* if it is Open.
C19_PnlFieldsIffClosed ==
    \A i \in 1..Len(trades) :
        LET t == trades[i] IN
        IF ~IsNone(t.exit_price)
        THEN ~IsNone(t.pnl) /\ ~IsNone(t.pnl_pct) /\ ~IsNone(t.holding_period)
        ELSE IsNone(t.pnl) /\ IsNone(t.pnl_pct) /\ IsNone(t.holding_period)

\* C19 (amended): pnl and holding period are present if the trade is Closed
\* and absent if it is Open; pnl_pct is present if and only if the trade is
\* Closed and its entry notional (entry price x quantity) is not zero.
C19_PnlFieldsIffClosedPctIffNotional ==
    \A i \in 1..Len(trades) :
        LET t == trades[i]
            closed == ~IsNone(t.exit_price)
        IN /\ closed => (~IsNone(t.pnl) /\ ~IsNone(t.holding_period))
           /\ ~closed => (IsNone(t.pnl) /\ IsNone(t.holding_period))
           /\ ~IsNone(t.pnl_pct) <=> (closed /\ t.entry_price * t.quantity # 0)

\* C19 witness: the ledger holds a Closed trade whose entry notional is
\* zero and a Closed trade whose entry notional is not.
C19_Witness ==
    /\ \E i \in 1..Len(trades) :
        /\ ~IsNone(trades[i].exit_price)
        /\ trades[i].entry_price * trades[i].quantity = 0
    /\ \E i \in 1..Len(trades) :
        /\ ~IsNone(trades[i].exit_price)
        /\ trades[i].entry_price * trades[i].quantity # 0

\* The ledger holds an Open trade with identifier tid.
HasOpen(tid) ==
    \E i \in 1..Len(trades) :
        trades[i].trade_id = tid /\ IsNone(trades[i].exit_price)

\* C20: close(id, ...) on a ledger that holds no Open trade with that
\* identifier returns False, does not raise, and leaves the trade list,
\* every trade's fields and the daily P&L buckets unchanged.
C20_CloseWithoutOpenTradeFails ==
    [][\A tid \in TradeIds :
        (IsClose(tid) /\ ~HasOpen(tid))
            => (lastCall'.ret = "False" /\ LedgerUnchanged)]_vars

\* C20 witness: a close of the unknown identifier T2 has just returned False
\* on a ledger that holds trades and a bucket.
C20_Witness ==
    /\ lastCall.op = "close" /\ lastCall.id = "T2" /\ lastCall.ret = "False"
    /\ TradesWithId("T2") = {}
    /\ trades # <<>>
    /\ DOMAIN daily_pnl # {}

RECURSIVE SumPnl(_)
\* The sum of pnl over the trades at the indices in S.
SumPnl(S) ==
    IF S = {} THEN 0
    ELSE LET i == CHOOSE x \in S : TRUE
         IN Val(trades[i].pnl) + SumPnl(S \ {i})

\* C21: in the overall statistics profit_factor is (sum of pnl of the
\* winning trades) / |sum of pnl of the losing trades|, and +infinity
\* whenever no closed trade is a loser.
C21_ProfitFactor ==
    LET s == TradeStatistics(trades, daily_pnl)
        wins == SumPnl(Winners)
        losses == SumPnl(Losers)
    IN (ClosedIdx # {} /\ s # Raised) =>
        /\ Losers = {} => s.profit_factor = [kind |-> "inf"]
        /\ losses # 0 =>
            /\ s.profit_factor.kind = "ratio"
            /\ s.profit_factor.num * (IF losses < 0 THEN -losses ELSE losses)
                    = wins * s.profit_factor.den

\* C21 witness: get_trade_statistics has returned on a ledger whose closed
\* trades are two winners and a loser, with profit factor 30/30.
C21_Witness ==
    /\ lastCall.op = "get_trade_statistics" /\ lastCall.ret = "result"
    /\ PnlSeries(ClosedTrades(trades)) = <<10, -30, 20>>
    /\ TradeStatistics(trades, daily_pnl).profit_factor
            = [kind |-> "ratio", num |-> 30, den |-> 30]

\* C25: a Closed trade stays in the ledger, stays Closed and keeps every
\* field (entry price, quantity, side, exit price, exit time, exit reason,
\* pnl, pnl_pct) under any later record, close or statistics call.
C25_ClosedTradesAreFrozen ==
    [][\A i \in 1..Len(trades) :
        ~IsNone(trades[i].exit_price)
            => (i <= Len(trades') /\ trades'[i] = trades[i])]_vars

\* C25 witness: the ledger holds two trades with the same identifier, the
\* first closed on day 0, the second opened later and just closed on day 1
\* by a close call with that identifier.
C25_Witness ==
    /\ lastCall.op = "close" /\ lastCall.ret = "True"
    /\ Len(trades) = 2
    /\ trades[1].trade_id = trades[2].trade_id
    /\ trades[1].exit_time = <<0>>
    /\ trades[2].entry_time = 1
    /\ trades[2].exit_time = <<1>>

RECURSIVE SumKeys(_, _)
\* The sum of the values of the bucket table b at the keys in S.
SumKeys(b, S) ==
    IF S = {} THEN 0
    ELSE LET k == CHOOSE x \in S : TRUE
         IN b[k] + SumKeys(b, S \ {k})

\* The sum of the values of the bucket table b.
SumBuckets(b) == SumKeys(b, DOMAIN b)

\* The value of bucket k of table b, 0 when the table has no such bucket.
BucketValue(b, k) == IF k \in DOMAIN b THEN b[k] ELSE 0

\* C27: in every ledger state the daily P&L buckets sum to the sum of pnl
\* over the Closed trades; a close that returns True changes exactly one
\* bucket, that of the trade's exit date, by the trade's pnl; record changes
\* no bucket.
C27_BucketsSumToClosedPnl ==
    /\ [](SumBuckets(daily_pnl) = SumPnl(ClosedIdx))
    /\ [][(IsCall /\ lastCall'.op = "close" /\ lastCall'.ret = "True") =>
            \E i \in 1..Len(trades) :
                /\ trades'[i] # trades[i]
                /\ LET d == trades'[i].exit_time[1]
                       pnl == trades'[i].pnl[1]
                   IN /\ DOMAIN daily_pnl' = DOMAIN daily_pnl \cup {d}
                      /\ daily_pnl'[d] = BucketValue(daily_pnl, d) + pnl
                      /\ \A k \in DOMAIN daily_pnl \ {d} :
                            daily_pnl'[k] = daily_pnl[k]]_vars
    /\ [][(IsCall /\ lastCall'.op = "record") => daily_pnl' = daily_pnl]_vars

\* C27 witness: two closes on day 0 have added -4 and 6 to its bucket.
C27_Witness ==
    /\ lastCall.op = "close" /\ lastCall.ret = "True"
    /\ PnlSeries(ClosedTrades(trades)) = <<-4, 6>>
    /\ DOMAIN daily_pnl = {0}
    /\ daily_pnl[0] = 2

SetMin(S) == CHOOSE x \in S : \A y \in S : x <= y

\* The closed trades of strategy k.
ClosedOf(k) == {i \in ClosedIdx : trades[i].strategy = k}

\* C28: in the per-strategy breakdown, for every strategy total_trades is
\* the number and total_pnl the sum of its closed trades, winning_trades
\* the number of those with pnl > 0, and best_trade and worst_trade the
\* maximum and the minimum pnl among them.
C28_StrategyBreakdown ==
    LET r == StrategyPerformance(trades) IN
    /\ r # Raised
    /\ DOMAIN r.stats = {trades[i].strategy : i \in ClosedIdx}
    /\ \A k \in DOMAIN r.stats :
        LET pnls == {trades[i].pnl[1] : i \in ClosedOf(k)} IN
        /\ r.stats[k].total_trades = Cardinality(ClosedOf(k))
        /\ r.stats[k].total_pnl = SumPnl(ClosedOf(k))
        /\ r.stats[k].winning_trades = Cardinality(ClosedOf(k) \cap Winners)
        /\ r.stats[k].best_trade = SetMax(pnls)
        /\ r.stats[k].worst_trade = SetMin(pnls)

=============================================================================
